---- MODULE Spec2Model ----
(***************************************************************************)
(* A model of the Comarfin backend (src/app.py, src/sheets_helper.py):     *)
(* the CUIL derivation calculate_cuil, the request handlers check_score,   *)
(* check_history and check_afip, and the spreadsheet log save_consultation.*)
(*                                                                         *)
(* Text is modelled as a sequence of one-character strings, so that        *)
(* len(), strip(), zfill(), slicing and concatenation are computed, not    *)
(* assumed.  Python's None is the record NoneVal; a returned string s is   *)
(* Some(s).                                                                *)
(***************************************************************************)
EXTENDS Integers, Sequences, FiniteSets, TLC

VARIABLES
    route,      \* which entry point this execution runs
    pc,         \* position inside the entry point
    req,        \* the arguments / JSON body of the request
    run,        \* calculate_cuil: the finished call (locals and return value)
    client_ok,  \* the module-level registry client was initialized (is not None)
    final_cuit, \* the identifier the handler settled on
    calls,      \* the identifiers the registry client was called with, in order
    result,     \* what the registry client returned (or raised)
    resp,       \* the HTTP response of the handler
    error_log,  \* the inputs appended to error.log
    ws,         \* sheet1 of the shared spreadsheet: its rows, top to bottom
    call_pc,    \* save_consultation: the position of each call
    existing_val \* save_consultation: each call's local existing_val (cell A1 as read)

sheet_vars == <<ws, call_pc, existing_val>>

app_vars == <<route, pc, req, run, client_ok, final_cuit, calls, result, resp, error_log>>

vars == <<app_vars, sheet_vars>>

handler_vars == <<client_ok, final_cuit, calls, result, resp, error_log>>

(***************************************************************************)
(* Bounds of the model.                                                    *)
(***************************************************************************)
\* longest DNI text (after stripping) that is tried
MaxLen == 12
\* how many trailing digits of a DNI range over all ten digits
VarDigits == 2
\* how many calls of save_consultation run concurrently
MaxCalls == 2

\* the calls of save_consultation
Calls == 1..MaxCalls

\* the sheet as the handlers and calculate_cuil leave it: they never log
NoSheetCalls ==
    /\ ws = <<>>
    /\ call_pc = [t \in Calls |-> "unused"]
    /\ existing_val = [t \in Calls |-> ""]

(***************************************************************************)
(* Text helpers (Python built-ins used by the code).                       *)
(***************************************************************************)
DigitChars == <<"0", "1", "2", "3", "4", "5", "6", "7", "8", "9">>

Digit == {DigitChars[i] : i \in 1..10}

\* int(c) for a one-digit text c
int(c) == (CHOOSE i \in 1..10 : DigitChars[i] = c) - 1

\* str(n) for an integer n >= 0: its decimal digits
RECURSIVE str(_)
str(n) == IF n < 10 THEN <<DigitChars[n + 1]>>
          ELSE str(n \div 10) \o <<DigitChars[(n % 10) + 1]>>

\* s.lstrip() / s.rstrip() / s.strip() for the whitespace character " "
RECURSIVE lstrip(_)
lstrip(s) == IF s # <<>> /\ Head(s) = " " THEN lstrip(Tail(s)) ELSE s

RECURSIVE rstrip(_)
rstrip(s) == IF s # <<>> /\ s[Len(s)] = " " THEN rstrip(SubSeq(s, 1, Len(s) - 1)) ELSE s

strip(s) == rstrip(lstrip(s))

\* s.zfill(width): zeros on the left up to width, longer text unchanged
RECURSIVE zfill(_, _)
zfill(s, width) == IF Len(s) >= width THEN s ELSE zfill(<<"0">> \o s, width)

\* gender.upper() on the gender values tried
upper(g) == CASE g = "m" -> "M"
              [] g = "f" -> "F"
              [] g = "x" -> "X"
              [] OTHER -> g

NoneVal == [none |-> TRUE, value |-> <<>>]

Some(s) == [none |-> FALSE, value |-> s]

(***************************************************************************)
(* calculate_cuil (src/app.py 51-112).                                     *)
(***************************************************************************)
\* the weight table with its last weight wrong
multipliers_LastOne == <<5, 4, 3, 2, 7, 6, 5, 4, 3, 1>>

multipliers == <<5, 4, 3, 2, 7, 6, 5, 4, 3, 2>>

\* the loop  for i in range(10): total += int(base[i]) * multipliers[i]
RECURSIVE SumLoop(_, _, _)
SumLoop(base, i, total) ==
    IF i > 10 THEN total
    ELSE SumLoop(base, i + 1, total + int(base[i]) * multipliers[i])

\* remainder = total % 11; check_digit = 11 - remainder
CheckDigitOf(base) == 11 - (SumLoop(base, 1, 0) % 11)

\* the prefix chosen from the upper-cased gender
PrefixFor(gender) == IF gender = "M" THEN <<"2", "0">>
                     ELSE IF gender = "F" THEN <<"2", "7">>
                     ELSE <<"2", "3">>

\* if check_digit == 11: check_digit = 0
Normalize11(check_digit) == IF check_digit = 11 THEN 0 ELSE check_digit

\* a retry that forgets the Female prefix
RetryGuard_OnlyMale(check_digit, gender, prefix) ==
    check_digit = 10 /\ gender = "M" /\ prefix # <<"2", "3">>

\* the guard of the retry: check_digit == 10 and gender in ['M','F'] and prefix != '23'
RetryGuard(check_digit, gender, prefix) ==
    check_digit = 10 /\ gender \in {"M", "F"} /\ prefix # <<"2", "3">>

\* the prefix the retry switches to
RetryPrefix == <<"2", "3">>

\* f"{prefix}{dni}{check_digit}"
FormatCuil(prefix, dni, check_digit) == prefix \o dni \o str(check_digit)

\* the guard of the first return: not dni or not gender
EmptyArgs(dni, gender) == dni = <<>> \/ gender = ""

\* an off-by-one upper limit
LengthOutOfRange_Nine(dni) == Len(dni) > 9 \/ Len(dni) < 7

\* len(dni) > 8 or len(dni) < 7
LengthOutOfRange(dni) == Len(dni) > 8 \/ Len(dni) < 7

\* a pass-through that accepts 10 characters instead of 11
IsCuilLength_Ten(dni) == Len(dni) = 10

\* the inner test: len(dni) == 11
IsCuilLength(dni) == Len(dni) = 11

\* A finished call: the return value, and the locals at the return
\* (bases: every base the checksum loop was run on, in order).
Finished(ret, prefix, dni, check_digit, bases) ==
    [called |-> TRUE, ret |-> ret, prefix |-> prefix, dni |-> dni,
     check_digit |-> check_digit, bases |-> bases]

\* the whole function, statement by statement
CuilRun(dni0, gender0) ==
    IF EmptyArgs(dni0, gender0) THEN Finished(NoneVal, <<>>, dni0, -1, <<>>)
    ELSE
    LET dni1 == strip(dni0)
        gender == upper(gender0)
    IN  IF LengthOutOfRange(dni1)
        THEN IF IsCuilLength(dni1)
             THEN Finished(Some(dni1), <<>>, dni1, -1, <<>>)
             ELSE Finished(NoneVal, <<>>, dni1, -1, <<>>)
        ELSE
        LET dni == zfill(dni1, 8)
            prefix == PrefixFor(gender)
            base == prefix \o dni
            check_digit == CheckDigitOf(base)
        IN  IF check_digit = 11
            THEN Finished(Some(FormatCuil(prefix, dni, 0)), prefix, dni, 0, <<base>>)
            ELSE IF RetryGuard(check_digit, gender, prefix)
            THEN LET prefix2 == RetryPrefix
                     base2 == prefix2 \o dni
                     check2 == Normalize11(CheckDigitOf(base2))
                 IN  Finished(Some(FormatCuil(prefix2, dni, check2)),
                              prefix2, dni, check2, <<base, base2>>)
            ELSE Finished(Some(FormatCuil(prefix, dni, check_digit)),
                          prefix, dni, check_digit, <<base>>)

calculate_cuil(dni, gender) == CuilRun(dni, gender).ret

(***************************************************************************)
(* What a registry client hands back (src/app.py 147-195, 218-273): a      *)
(* table (pandas DataFrame), a status object (dict), something else, or an *)
(* exception.  One record shape for all of them.                           *)
(***************************************************************************)
NoResult == [kind |-> "none", rows |-> <<>>, has_status |-> FALSE, status |-> 0,
             errorMessages |-> <<>>, msg |-> ""]

Table(rows) == [NoResult EXCEPT !.kind = "table", !.rows = rows]

\* a dict with a 'status' key
StatusObject(status, msgs) ==
    [NoResult EXCEPT !.kind = "dict", !.has_status = TRUE, !.status = status,
                     !.errorMessages = msgs]

\* a dict without a 'status' key
BareObject(msgs) == [NoResult EXCEPT !.kind = "dict", !.errorMessages = msgs]

OtherShape == [NoResult EXCEPT !.kind = "other"]

Raised(msg) == [NoResult EXCEPT !.kind = "raise", !.msg = msg]

\* '; '.join(msgs)
RECURSIVE Join(_)
Join(msgs) == IF msgs = <<>> THEN <<>>
              ELSE IF Len(msgs) = 1 THEN <<msgs[1]>>
              ELSE <<msgs[1], "; ">> \o Join(Tail(msgs))

\* str(result) of a status object: the text of the whole dict
ReprDict(r) ==
    (IF r.has_status THEN <<"{'status': ">> \o str(r.status) \o <<", ">> ELSE <<"{">>)
    \o <<"'errorMessages': [">> \o Join(r.errorMessages) \o <<"]}">>

\* result.get('status', 0)
StatusCode(r) == IF r.has_status THEN r.status ELSE 0

(***************************************************************************)
(* Inputs of calculate_cuil.                                               *)
(***************************************************************************)
\* leading digits of the DNIs tried (the trailing VarDigits digits vary freely)
Stems == { [i \in 1..(MaxLen + 1) |-> "0"],
           [i \in 1..(MaxLen + 1) |-> DigitChars[(i % 10) + 1]] }

DigitTexts(n) ==
    IF n <= VarDigits THEN [1..n -> Digit]
    ELSE { SubSeq(stem, 1, n - VarDigits) \o t :
               stem \in Stems, t \in [1..VarDigits -> Digit] }

\* surrounding whitespace a caller may leave on the text: <<left, right>>
Pads == { << <<>>, <<>> >>, << <<" ">>, <<>> >>, << <<>>, <<" ">> >> }

\* DNIs named in the documentation, and one whose checksum with prefix 23 is 10
ExampleDnis == { <<"5", "5", "5", "1", "2", "3", "4">>,
                 <<"1", "2", "3", "4", "5", "6", "7", "8">>,
                 <<"1", "0", "0", "0", "0", "0", "1", "3">> }

DniInputs == ExampleDnis \cup
             UNION { { pad[1] \o d \o pad[2] : d \in DigitTexts(n), pad \in Pads } :
                     n \in 0..MaxLen }

GenderInputs == {"", "M", "F", "f", "X"}

\* calculate_cuil has not been called
NoRun == [called |-> FALSE, ret |-> NoneVal, prefix |-> <<>>, dni |-> <<>>,
          check_digit |-> -1, bases |-> <<>>]

(***************************************************************************)
(* Specification SpecCuil: calculate_cuil called directly.                 *)
(***************************************************************************)
InitCuil ==
    /\ route = "calculate_cuil"
    /\ pc = "call"
    /\ req \in [dni : DniInputs, sex : GenderInputs]
    /\ run = NoRun
    /\ client_ok = TRUE
    /\ final_cuit = <<>>
    /\ calls = <<>>
    /\ result = NoResult
    /\ resp = [code |-> 0]
    /\ error_log = <<>>
    /\ NoSheetCalls

CallCuil ==
    /\ route = "calculate_cuil"
    /\ pc = "call"
    /\ run' = CuilRun(req.dni, req.sex)
    /\ pc' = "done"
    /\ UNCHANGED <<route, req, handler_vars>>
    /\ UNCHANGED sheet_vars

NextCuil == CallCuil

SpecCuil == InitCuil /\ [][NextCuil]_vars

\* the call has returned
Returned == route = "calculate_cuil" /\ pc = "done"

IsDigits(s) == \A i \in 1..Len(s) : s[i] \in Digit

(***************************************************************************)
(* check_score (src/app.py 118-203).                                       *)
(***************************************************************************)
ScoreBlank == [code |-> 0, status |-> "", error |-> "", error_code |-> -1,
               details |-> <<>>, message |-> "", data |-> <<>>,
               summary_situation |-> -1, calculated_cuit |-> <<>>]

\* jsonify({'error': text}), code
ScoreError(code, text) == [ScoreBlank EXCEPT !.code = code, !.error = text]

\* a threshold of 11 characters instead of 10
NeedsDerivation_Eleven(dni) == Len(dni) < 11

\* len(str(dni)) < 10
NeedsDerivation(dni) == Len(dni) < 10

\* a cell of the column periodos_entidades_situacion: the column is not in the
\* table ("missing"), the value is an integer ("int"), or it is a value int()
\* rejects, such as NaN or free text ("bad")
MissingCell == [k |-> "missing", v |-> 0]

BadCell == [k |-> "bad", v |-> 0]

IntCell(n) == [k |-> "int", v |-> n]

\* a parse that counts an unparseable value as 1
ParseSit_BadIsOne(record) ==
    IF record.situacion.k = "int" THEN [ok |-> TRUE, v |-> record.situacion.v]
    ELSE [ok |-> TRUE, v |-> 1]

\* int(record.get('periodos_entidades_situacion', 1)): ok is FALSE when int() raises
ParseSit(record) ==
    IF record.situacion.k = "missing" THEN [ok |-> TRUE, v |-> 1]
    ELSE IF record.situacion.k = "int" THEN [ok |-> TRUE, v |-> record.situacion.v]
    ELSE [ok |-> FALSE, v |-> 0]

\* the loop over records that raises max_situation; an exception is passed over
RECURSIVE MaxSituationLoop(_, _, _)
MaxSituationLoop(records, i, max_situation) ==
    IF i > Len(records) THEN max_situation
    ELSE LET sit == ParseSit(records[i])
         IN  MaxSituationLoop(records, i + 1,
                 IF sit.ok /\ sit.v > max_situation THEN sit.v ELSE max_situation)

\* result.to_dict(orient='records'): the rows, in the table's order
ToRecords(rows) == rows

\* '; '.join(error_msgs) if error_msgs else str(result)
ErrorDetails(r) == IF r.errorMessages # <<>> THEN Join(r.errorMessages) ELSE ReprDict(r)

\* a classification that reports a 404 as an error
IsNotFound_Never(r) == FALSE

\* status_code == 404
IsNotFound(r) == StatusCode(r) = 404

\* the body of the try block after the registry call, and the except clause
ScoreResponse(r, cuit) ==
    IF r.kind = "raise" THEN ScoreError(500, r.msg)
    ELSE IF r.kind = "table" THEN
        IF r.rows = <<>>
        THEN [ScoreBlank EXCEPT !.code = 200, !.status = "no_data",
                                !.message = "No se encontraron datos para el CUIT",
                                !.calculated_cuit = cuit]
        ELSE LET records == ToRecords(r.rows)
             IN  [ScoreBlank EXCEPT !.code = 200, !.status = "success",
                                    !.data = records,
                                    !.summary_situation = MaxSituationLoop(records, 1, 0),
                                    !.calculated_cuit = cuit]
    ELSE IF r.kind = "dict" THEN
        IF IsNotFound(r)
        THEN [ScoreBlank EXCEPT !.code = 200, !.status = "no_data",
                                !.message = "No se encontraron deudas para el CUIT",
                                !.calculated_cuit = cuit]
        ELSE [ScoreBlank EXCEPT !.code = 500, !.error = "Error del BCRA",
                                !.error_code = StatusCode(r),
                                !.details = ErrorDetails(r)]
    ELSE [ScoreBlank EXCEPT !.code = 500, !.error = "Respuesta inesperada del BCRA",
                            !.details = <<"<class 'other'>">>]

(***************************************************************************)
(* Inputs of check_score.                                                  *)
(***************************************************************************)
\* most rows in a table
MaxRows == 3
\* largest situation code in a table
MaxSit == 3

\* the dni field of the body; <<>> stands for an absent, null or empty field
ScoreDniInputs ==
    ExampleDnis
    \cup { [i \in 1..n |-> DigitChars[(i % 10) + 1]] : n \in 0..MaxLen }
    \cup { <<" ">> \o d : d \in ExampleDnis } \cup { <<" ">> }

\* the sex field of the body; "" stands for an absent, null or empty field
ScoreSexInputs == {"", "M", "F", "f", "X"}

SitCells == {BadCell} \cup {IntCell(n) : n \in 0..MaxSit}

\* row i of a table keeps its position as its entity number
RowsOf(cells) == [i \in 1..Len(cells) |-> [entidad |-> i, situacion |-> cells[i]]]

DebtTables ==
    {Table(<<>>)}
    \cup { Table(RowsOf(cells)) : cells \in UNION { [1..n -> SitCells] : n \in 1..MaxRows } }
    \cup { Table(RowsOf([i \in 1..n |-> MissingCell])) : n \in 1..MaxRows }

MessageLists == { <<>>, <<"e1">>, <<"e1", "e2">> }

StatusObjects == { StatusObject(c, m) : c \in {404, 400, 500}, m \in MessageLists }
                 \cup { BareObject(m) : m \in MessageLists }

Exceptions == { Raised("Connection timed out") }

ScoreResults == DebtTables \cup StatusObjects \cup {OtherShape} \cup Exceptions

(***************************************************************************)
(* Specification SpecScore: one POST /check_score.                         *)
(***************************************************************************)
InitScore ==
    /\ route = "check_score"
    /\ pc = "validate"
    /\ req \in [dni : ScoreDniInputs, sex : ScoreSexInputs]
    /\ run = NoRun
    /\ client_ok \in BOOLEAN
    /\ final_cuit = <<>>
    /\ calls = <<>>
    /\ result = NoResult
    /\ resp = ScoreBlank
    /\ error_log = <<>>
    /\ NoSheetCalls

\* lines 120-143: every return before the registry call
ScoreValidate ==
    /\ route = "check_score"
    /\ pc = "validate"
    /\ IF ~client_ok
       THEN /\ resp' = ScoreError(500, "BCRA client not initialized")
            /\ pc' = "done"
            /\ UNCHANGED <<final_cuit, run>>
       ELSE IF req.dni = <<>>
       THEN /\ resp' = ScoreError(400, "DNI is required")
            /\ pc' = "done"
            /\ UNCHANGED <<final_cuit, run>>
       ELSE IF NeedsDerivation(req.dni)
       THEN IF req.sex = ""
            THEN /\ resp' = ScoreError(400, "Sexo es requerido para calcular el CUIL desde el DNI.")
                 /\ pc' = "done"
                 /\ UNCHANGED <<final_cuit, run>>
            ELSE /\ run' = CuilRun(req.dni, req.sex)
                 /\ IF ~run'.ret.none /\ run'.ret.value # <<>>
                    THEN /\ final_cuit' = run'.ret.value
                         /\ pc' = "query"
                         /\ UNCHANGED resp
                    ELSE /\ resp' = ScoreError(400, "No se pudo calcular el CUIL. Verifique el DNI.")
                         /\ pc' = "done"
                         /\ UNCHANGED final_cuit
       ELSE /\ final_cuit' = req.dni
            /\ pc' = "query"
            /\ UNCHANGED <<resp, run>>
    /\ UNCHANGED <<route, req, client_ok, calls, result, error_log>>
    /\ UNCHANGED sheet_vars

\* line 147: result = client.debtors.debtors(identificacion=final_cuit)
ScoreQuery ==
    /\ route = "check_score"
    /\ pc = "query"
    /\ calls' = Append(calls, final_cuit)
    /\ \E r \in ScoreResults : result' = r
    /\ pc' = "respond"
    /\ UNCHANGED <<route, req, run, client_ok, final_cuit, resp, error_log>>
    /\ UNCHANGED sheet_vars

\* lines 149-203: the response built from the result; the except clause also
\* appends the request to error.log
ScoreRespond ==
    /\ route = "check_score"
    /\ pc = "respond"
    /\ resp' = ScoreResponse(result, final_cuit)
    /\ error_log' = IF result.kind = "raise" THEN Append(error_log, req) ELSE error_log
    /\ pc' = "done"
    /\ UNCHANGED <<route, req, run, client_ok, final_cuit, calls, result>>
    /\ UNCHANGED sheet_vars

NextScore == ScoreValidate \/ ScoreQuery \/ ScoreRespond

SpecScore == InitScore /\ [][NextScore]_vars

(***************************************************************************)
(* check_history (src/app.py 205-277).                                     *)
(***************************************************************************)
HistoryBlank == [code |-> 0, status |-> "", error |-> "", error_code |-> -1,
                 details |-> <<>>, message |-> "", history |-> <<>>,
                 person_name |-> ""]

HistoryError(code, text) == [HistoryBlank EXCEPT !.code = code, !.error = text]

\* the [:6] of line 225
HistoryLimit == 6

\* result[column].unique(): the distinct values, in order of first appearance
RECURSIVE Unique(_)
Unique(values) ==
    IF values = <<>> THEN <<>>
    ELSE LET init == Unique(SubSeq(values, 1, Len(values) - 1))
             last == values[Len(values)]
         IN  IF \E i \in 1..Len(init) : init[i] = last THEN init ELSE Append(init, last)

\* one step of an insertion sort, largest first
RECURSIVE InsertDesc(_, _)
InsertDesc(x, sorted) ==
    IF sorted = <<>> THEN <<x>>
    ELSE IF x >= Head(sorted) THEN <<x>> \o sorted
    ELSE <<Head(sorted)>> \o InsertDesc(x, Tail(sorted))

\* one step of an insertion sort, smallest first
RECURSIVE InsertAsc(_, _)
InsertAsc(x, sorted) ==
    IF sorted = <<>> THEN <<x>>
    ELSE IF x <= Head(sorted) THEN <<x>> \o sorted
    ELSE <<Head(sorted)>> \o InsertAsc(x, Tail(sorted))

\* a sort that forgets reverse=True
RECURSIVE Sorted_Ascending(_)
Sorted_Ascending(values) ==
    IF values = <<>> THEN <<>> ELSE InsertAsc(Head(values), Sorted_Ascending(Tail(values)))

\* sorted(values, reverse=True)
RECURSIVE SortedReverse(_)
SortedReverse(values) ==
    IF values = <<>> THEN <<>> ELSE InsertDesc(Head(values), SortedReverse(Tail(values)))

\* values[:n]
Take(values, n) == SubSeq(values, 1, IF Len(values) < n THEN Len(values) ELSE n)

\* the column of a table, as a sequence
Column(rows, name) == [i \in 1..Len(rows) |-> rows[i][name]]

\* result[result['periodos_periodo'] == period]: the rows of one period, in order
RECURSIVE RowsOfPeriod(_, _)
RowsOfPeriod(rows, period) ==
    IF rows = <<>> THEN <<>>
    ELSE IF Head(rows).periodos_periodo = period
         THEN <<Head(rows)>> \o RowsOfPeriod(Tail(rows), period)
         ELSE RowsOfPeriod(Tail(rows), period)

\* the numbers of a column; pandas max() and sum() pass over NaN cells
Numbers(cells) == { cells[i].v : i \in { j \in 1..Len(cells) : cells[j].k = "int" } }

\* int(column.max()) inside try/except: 0 when the maximum is NaN
WorstSituation(cells) ==
    IF Numbers(cells) = {} THEN 0
    ELSE CHOOSE m \in Numbers(cells) : \A x \in Numbers(cells) : x <= m

\* float(column.sum()): the sum of the cells that hold a number
RECURSIVE TotalDebt(_)
TotalDebt(cells) ==
    IF cells = <<>> THEN 0
    ELSE (IF Head(cells).k = "int" THEN Head(cells).v ELSE 0) + TotalDebt(Tail(cells))

\* f"{period_str[:4]}-{period_str[4:]}" if len(period_str) == 6 else period_str
FormatPeriod(period) ==
    LET period_str == str(period)
    IN  IF Len(period_str) = 6
        THEN SubSeq(period_str, 1, 4) \o <<"-">> \o SubSeq(period_str, 5, Len(period_str))
        ELSE period_str

\* the dict appended to history_summary for one period
PeriodSummary(rows, period) ==
    LET period_data == RowsOfPeriod(rows, period)
    IN  [period |-> FormatPeriod(period),
         worst_situation |-> WorstSituation(Column(period_data, "periodos_entidades_situacion")),
         total_debt |-> TotalDebt(Column(period_data, "periodos_entidades_monto")),
         num_entities |-> Len(period_data)]

\* periods = sorted(result['periodos_periodo'].unique(), reverse=True)[:6]
LastPeriods(rows) ==
    Take(SortedReverse(Unique(Column(rows, "periodos_periodo"))), HistoryLimit)

\* the loop building history_summary
HistorySummary(rows) ==
    LET periods == LastPeriods(rows)
    IN  [i \in 1..Len(periods) |-> PeriodSummary(rows, periods[i])]

\* result['denominacion'].iloc[0] if 'denominacion' in result.columns else 'N/A'
PersonName(rows) ==
    IF rows[1].denominacion.k = "missing" THEN "N/A" ELSE rows[1].denominacion.v

\* the body of the try block after the registry call, and the except clause
HistoryResponse(r) ==
    IF r.kind = "raise" THEN HistoryError(500, r.msg)
    ELSE IF r.kind = "table" THEN
        IF r.rows = <<>>
        THEN [HistoryBlank EXCEPT !.code = 200, !.status = "no_history",
                                  !.message = "Sin historial disponible."]
        ELSE [HistoryBlank EXCEPT !.code = 200, !.status = "success",
                                  !.history = HistorySummary(r.rows),
                                  !.person_name = PersonName(r.rows)]
    ELSE IF r.kind = "dict" THEN
        IF StatusCode(r) = 404
        THEN [HistoryBlank EXCEPT !.code = 200, !.status = "no_history",
                                  !.message = "Sin historial de deudas registrado."]
        ELSE [HistoryBlank EXCEPT !.code = 500, !.error = "Error del BCRA",
                                  !.error_code = StatusCode(r),
                                  !.details = Join(r.errorMessages)]
    ELSE [HistoryBlank EXCEPT !.code = 500, !.error = "Respuesta inesperada",
                              !.details = <<"<class 'other'>">>]

(***************************************************************************)
(* Inputs of check_history.                                                *)
(***************************************************************************)
\* most periods that report a second row
MaxDup == 1

\* the periods a table may hold, in two listings: as the registry might send
\* them (unordered) and oldest first; one period has 5 digits
PeriodListings ==
    { <<202403, 202408, 99912, 202401, 202406, 202402, 202407, 202405, 202404>>,
      <<99912, 202401, 202402, 202403, 202404, 202405, 202406, 202407, 202408>> }

\* the periods of a listing that are in S, in the listing's order
RECURSIVE Listed(_, _)
Listed(listing, S) ==
    IF listing = <<>> THEN <<>>
    ELSE IF Head(listing) \in S THEN <<Head(listing)>> \o Listed(Tail(listing), S)
    ELSE Listed(Tail(listing), S)

\* row i of a history table: numeric columns and a name, or columns holding
\* only NaN and no denominacion column
HistoryRow(period, i, style) ==
    [periodos_periodo |-> period,
     periodos_entidades_situacion |->
         IF style = "numeric" THEN IntCell(1 + ((period + i) % MaxSit)) ELSE BadCell,
     periodos_entidades_monto |->
         IF style = "numeric" THEN IntCell(100 * i + (period % 100)) ELSE BadCell,
     denominacion |-> IF style = "numeric" THEN [k |-> "text", v |-> "PEREZ JUAN"]
                      ELSE [k |-> "missing", v |-> ""]]

HistoryRows(periods, style) ==
    [i \in 1..Len(periods) |-> HistoryRow(periods[i], i, style)]

PeriodUniverse == {99912} \cup {202400 + k : k \in 1..8}

\* every period of S once, then those of them in D a second time
HistoryTables ==
    {Table(<<>>)} \cup
    { Table(HistoryRows(Listed(l, S) \o Listed(l, D \cap S), style)) :
          l \in PeriodListings, style \in {"numeric", "nan"},
          S \in (SUBSET PeriodUniverse) \ {{}},
          D \in { X \in SUBSET PeriodUniverse : Cardinality(X) <= MaxDup } }

HistoryResults == HistoryTables \cup StatusObjects \cup {OtherShape} \cup Exceptions

\* the cuit field of the body; <<>> stands for an absent, null or empty field
HistoryCuitInputs == { <<>>, <<"2", "0", "1", "2", "3", "4", "5", "6", "7", "8", "6">> }

(***************************************************************************)
(* Specification SpecHistory: one POST /check_history.                     *)
(***************************************************************************)
InitHistory ==
    /\ route = "check_history"
    /\ pc = "validate"
    /\ req \in [cuit : HistoryCuitInputs]
    /\ run = NoRun
    /\ client_ok \in BOOLEAN
    /\ final_cuit = <<>>
    /\ calls = <<>>
    /\ result = NoResult
    /\ resp = HistoryBlank
    /\ error_log = <<>>
    /\ NoSheetCalls

\* lines 208-215: every return before the registry call
HistoryValidate ==
    /\ route = "check_history"
    /\ pc = "validate"
    /\ IF ~client_ok
       THEN /\ resp' = HistoryError(500, "BCRA client not initialized")
            /\ pc' = "done"
            /\ UNCHANGED final_cuit
       ELSE IF req.cuit = <<>>
       THEN /\ resp' = HistoryError(400, "CUIT is required")
            /\ pc' = "done"
            /\ UNCHANGED final_cuit
       ELSE /\ final_cuit' = req.cuit
            /\ pc' = "query"
            /\ UNCHANGED resp
    /\ UNCHANGED <<route, req, run, client_ok, calls, result, error_log>>
    /\ UNCHANGED sheet_vars

\* line 218: result = client.debtors.history(identificacion=cuit)
HistoryQuery ==
    /\ route = "check_history"
    /\ pc = "query"
    /\ calls' = Append(calls, final_cuit)
    /\ \E r \in HistoryResults : result' = r
    /\ pc' = "respond"
    /\ UNCHANGED <<route, req, run, client_ok, final_cuit, resp, error_log>>
    /\ UNCHANGED sheet_vars

\* lines 220-277: the response built from the result
HistoryRespond ==
    /\ route = "check_history"
    /\ pc = "respond"
    /\ resp' = HistoryResponse(result)
    /\ pc' = "done"
    /\ UNCHANGED <<route, req, run, client_ok, final_cuit, calls, result, error_log>>
    /\ UNCHANGED sheet_vars

NextHistory == HistoryValidate \/ HistoryQuery \/ HistoryRespond

SpecHistory == InitHistory /\ [][NextHistory]_vars

(***************************************************************************)
(* check_afip (src/app.py 279-437).                                        *)
(*                                                                         *)
(* A description is a sequence of text fragments, so that upper() and the  *)
(* substring tests of the code are computed on it.  A section of the       *)
(* taxpayer record (datosMonotributo, datosRegimenGeneral) is absent, an   *)
(* empty dict, or holds data.                                              *)
(***************************************************************************)
\* fragment.upper() on the fragments used ([o'] and [O'] stand for the
\* accented letter, in lower and in upper case)
UpperFragment(t) == CASE t = "iva" -> "IVA"
                      [] t = "aut[o']nomo" -> "AUT[O']NOMO"
                      [] t = "relac" -> "RELAC"
                      [] t = "ion de " -> "ION DE "
                      [] t = "dependencia" -> "DEPENDENCIA"
                      [] OTHER -> t

\* text.upper()
UpperText(text) == [i \in 1..Len(text) |-> UpperFragment(text[i])]

\* needle in text
Contains(text, needle) == \E i \in 1..Len(text) : text[i] = needle

NoSection == [state |-> "absent", impuesto |-> <<>>, actividad |-> <<>>,
              categoria |-> [present |-> FALSE, descripcion |-> ""]]

EmptySection == [NoSection EXCEPT !.state = "empty"]

DataSection(impuesto, actividad, categoria) ==
    [state |-> "data", impuesto |-> impuesto, actividad |-> actividad,
     categoria |-> categoria]

\* the truth value of taxpayer.get(section, {})
Truthy(section) == section.state = "data"

NoGeneral == [present |-> FALSE, nombre |-> "", apellido |-> "", razonSocial |-> "",
              estadoClave |-> "", tipoPersona |-> "", domicilio |-> <<>>]

\* a taxpayer that is None or an empty dict
NoTaxpayer == [kind |-> "none", has_error |-> FALSE, error_nombre |-> "",
               error_apellido |-> "", errors |-> <<>>, general |-> NoGeneral,
               mono |-> NoSection, rg |-> NoSection, msg |-> ""]

\* text.strip() on a sequence of fragments: blank fragments at the ends go
RECURSIVE StripFragments(_)
StripFragments(text) ==
    IF text # <<>> /\ Head(text) \in {"", " "} THEN StripFragments(Tail(text))
    ELSE IF text # <<>> /\ text[Len(text)] \in {"", " "}
    THEN StripFragments(SubSeq(text, 1, Len(text) - 1))
    ELSE text

\* f"{nombre} {apellido}".strip()
NameOf(nombre, apellido) == StripFragments(<<nombre, " ", apellido>>)

\* razon_social if razon_social else f"{nombre} {apellido}".strip()
FullName(g) == IF g.razonSocial # "" THEN <<g.razonSocial>> ELSE NameOf(g.nombre, g.apellido)

\* dict.get(key, 'N/A') on a field that is "" when the key is absent
OrNA(field, present) == IF present THEN field ELSE "N/A"

\* the loop over datos_mono['impuesto']: is there an item with idImpuesto 20 and
\* estadoImpuesto 'AC'
ActiveMonotributo(mono) ==
    /\ Truthy(mono)
    /\ \E i \in 1..Len(mono.impuesto) :
           mono.impuesto[i].idImpuesto = 20 /\ mono.impuesto[i].estadoImpuesto = "AC"

\* a scan that looks at the first item only
ActiveMonotributo_FirstOnly(mono) ==
    /\ Truthy(mono)
    /\ mono.impuesto # <<>>
    /\ mono.impuesto[1].idImpuesto = 20 /\ mono.impuesto[1].estadoImpuesto = "AC"

\* category: cat_mono.get('descripcionCategoria', 'N/A') when the item is found,
\* None (shown as "") otherwise
CategoryOf(mono) ==
    IF ActiveMonotributo(mono)
    THEN (IF mono.categoria.present THEN mono.categoria.descripcion ELSE "N/A")
    ELSE ""

\* the loop over datos_rg['impuesto'], first test: an active item whose
\* description holds IVA and whose idImpuesto is 30
ResponsableInscripto(rg) ==
    /\ Truthy(rg)
    /\ \E i \in 1..Len(rg.impuesto) :
           /\ rg.impuesto[i].estadoImpuesto = "AC"
           /\ Contains(UpperText(rg.impuesto[i].descripcionImpuesto), "IVA")
           /\ rg.impuesto[i].idImpuesto = 30

\* the same loop, second test: an active item whose description holds
\* AUTONOMO or its accented spelling
Autonomo(rg) ==
    /\ Truthy(rg)
    /\ \E i \in 1..Len(rg.impuesto) :
           /\ rg.impuesto[i].estadoImpuesto = "AC"
           /\ \/ Contains(UpperText(rg.impuesto[i].descripcionImpuesto), "AUTONOMO")
              \/ Contains(UpperText(rg.impuesto[i].descripcionImpuesto), "AUT[O']NOMO")

\* all_activities: the descriptions of both sections, datosMonotributo first
AllActivities(t) ==
    [i \in 1..Len(t.mono.actividad) |-> t.mono.actividad[i]]
    \o [i \in 1..Len(t.rg.actividad) |-> t.rg.actividad[i]]

\* an activity whose description holds RELAC and DEPENDENCIA
RelacionDependencia(t) ==
    \E i \in 1..Len(AllActivities(t)) :
        /\ Contains(UpperText(AllActivities(t)[i]), "RELAC")
        /\ Contains(UpperText(AllActivities(t)[i]), "DEPENDENCIA")

\* ' | '.join(conditions), each condition a sequence of fragments
RECURSIVE JoinBar(_)
JoinBar(conditions) ==
    IF conditions = <<>> THEN <<>>
    ELSE IF Len(conditions) = 1 THEN conditions[1]
    ELSE conditions[1] \o <<" | ">> \o JoinBar(Tail(conditions))

\* a list that appends Relacion de Dependencia before Responsable Inscripto
Conditions_Swapped(is_mono, category, is_ri, is_rd, is_autonomo) ==
    (IF is_mono
     THEN << IF category # "" THEN <<"Monotributista", " (", category, ")">>
             ELSE <<"Monotributista">> >>
     ELSE <<>>)
    \o (IF is_rd THEN << <<"Relacion de Dependencia">> >> ELSE <<>>)
    \o (IF is_ri THEN << <<"Responsable Inscripto">> >> ELSE <<>>)
    \o (IF is_autonomo THEN << <<"Autonomo">> >> ELSE <<>>)

\* the list conditions, built by the four appends (is_mono, is_ri, is_rd: the
\* flags is_monotributo, is_responsable_inscripto, is_relacion_dependencia)
Conditions(is_mono, category, is_ri, is_rd, is_autonomo) ==
    (IF is_mono
     THEN << IF category # "" THEN <<"Monotributista", " (", category, ")">>
             ELSE <<"Monotributista">> >>
     ELSE <<>>)
    \o (IF is_ri THEN << <<"Responsable Inscripto">> >> ELSE <<>>)
    \o (IF is_rd THEN << <<"Relacion de Dependencia">> >> ELSE <<>>)
    \o (IF is_autonomo THEN << <<"Autonomo">> >> ELSE <<>>)

SinInscripciones ==
    <<"Sin inscripciones activas - Posible empleado en relacion de dependencia, jubilado o sin actividad registrada">>

SinCondicion == <<"Sin condicion activa detectada">>

\* the label condition
ConditionLabel(t) ==
    LET conditions == Conditions(ActiveMonotributo(t.mono), CategoryOf(t.mono),
                                 ResponsableInscripto(t.rg), RelacionDependencia(t),
                                 Autonomo(t.rg))
    IN  IF conditions = <<>>
        THEN (IF ~Truthy(t.mono) /\ ~Truthy(t.rg) THEN SinInscripciones ELSE SinCondicion)
        ELSE JoinBar(conditions)

\* ', '.join(p for p in parts if p)
RECURSIVE JoinParts(_)
JoinParts(parts) ==
    IF parts = <<>> THEN <<>>
    ELSE IF Head(parts) = "" THEN JoinParts(Tail(parts))
    ELSE IF JoinParts(Tail(parts)) = <<>> THEN <<Head(parts)>>
    ELSE <<Head(parts), ", ">> \o JoinParts(Tail(parts))

\* all_impuestos: one entry per tax item of both sections
Impuestos(t) ==
    LET items == t.mono.impuesto \o t.rg.impuesto
    IN  [i \in 1..Len(items) |->
            [descripcion |-> items[i].descripcionImpuesto,
             estado |-> IF items[i].estadoImpuesto = "AC" THEN "Activo" ELSE "Inactivo",
             periodo |-> items[i].periodo]]

AfipBlank == [code |-> 0, status |-> "", error |-> "", message |-> "", cuit |-> <<>>,
              nombre |-> <<>>, estado_clave |-> "", tipo_persona |-> "",
              condicion_fiscal |-> <<>>, is_monotributo |-> FALSE,
              is_responsable_inscripto |-> FALSE, is_relacion_dependencia |-> FALSE,
              is_autonomo |-> FALSE, categoria_monotributo |-> "", domicilio |-> <<>>,
              actividades |-> {}, impuestos |-> <<>>, errors |-> <<>>]

AfipError(code, text) == [AfipBlank EXCEPT !.code = code, !.error = text]

\* a plausible slip: any exception with a message counts as "not found"
PersonNotFound_AnyMessage(msg) == msg # ""

\* 'No existe persona' in error_msg
PersonNotFound(msg) == msg = "No existe persona con ese Id"

\* the body of the try block after the registry call, and the except clause;
\* acts is list(set(all_activities))[:10], whose order and choice are the set's
AfipResponse(t, cuit, acts) ==
    IF t.kind = "raise" THEN
        IF PersonNotFound(t.msg)
        THEN [AfipBlank EXCEPT !.code = 200, !.status = "not_found", !.cuit = cuit,
                               !.message = "No se encontro persona con CUIT"]
        ELSE AfipError(500, t.msg)
    ELSE IF t.kind = "none" THEN
        [AfipBlank EXCEPT !.code = 200, !.status = "no_data", !.cuit = cuit,
                          !.message = "No se encontraron datos en AFIP."]
    ELSE IF t.has_error /\ ~t.general.present THEN
        [AfipBlank EXCEPT !.code = 200, !.status = "partial", !.cuit = cuit,
                          !.nombre = IF NameOf(t.error_nombre, t.error_apellido) # <<>>
                                     THEN NameOf(t.error_nombre, t.error_apellido)
                                     ELSE <<"N/A">>,
                          !.errors = t.errors,
                          !.message = "Datos parciales - la constancia tiene observaciones"]
    ELSE
        [AfipBlank EXCEPT !.code = 200, !.status = "success", !.cuit = cuit,
                          !.nombre = FullName(t.general),
                          !.estado_clave = OrNA(t.general.estadoClave, t.general.present),
                          !.tipo_persona = OrNA(t.general.tipoPersona, t.general.present),
                          !.condicion_fiscal = ConditionLabel(t),
                          !.is_monotributo = ActiveMonotributo(t.mono),
                          !.is_responsable_inscripto = ResponsableInscripto(t.rg),
                          !.is_relacion_dependencia = RelacionDependencia(t),
                          !.is_autonomo = Autonomo(t.rg),
                          !.categoria_monotributo = CategoryOf(t.mono),
                          !.domicilio = JoinParts(t.general.domicilio),
                          !.actividades = acts,
                          !.impuestos = Impuestos(t)]

\* the values list(set(all_activities))[:10] can take: any 10 of the distinct
\* descriptions, or all of them when there are at most 10
ActivityChoices(t) ==
    LET all == { AllActivities(t)[i] : i \in 1..Len(AllActivities(t)) }
    IN  IF Cardinality(all) <= 10 THEN {all}
        ELSE { A \in SUBSET all : Cardinality(A) = 10 }

\* int(cuit) as sent to the registry: surrounding whitespace and leading zeros go
RECURSIVE DropZeros(_)
DropZeros(text) ==
    IF Len(text) > 1 /\ Head(text) = "0" THEN DropZeros(Tail(text)) ELSE text

IntOf(cuit) == DropZeros(strip(cuit))

(***************************************************************************)
(* Inputs of check_afip.                                                   *)
(***************************************************************************)
\* most tax items in a section
MaxItems == 2

Item(id, estado, descripcion) ==
    [idImpuesto |-> id, estadoImpuesto |-> estado, descripcionImpuesto |-> descripcion,
     periodo |-> 202401]

MonoItems == { Item(20, "AC", <<"MONOTRIBUTO">>), Item(20, "BD", <<"MONOTRIBUTO">>),
               Item(21, "AC", <<"MONOTRIBUTO ", "AUTONOMO">>) }

RgItems == { Item(30, "AC", <<"IVA">>), Item(30, "BD", <<"iva">>),
             Item(32, "AC", <<"IVA", " EXENTO">>), Item(308, "AC", <<"APORTES ", "aut[o']nomo">>) }

ItemLists(items) == UNION { [1..n -> items] : n \in 0..MaxItems }

Categorias == { [present |-> FALSE, descripcion |-> ""],
                [present |-> TRUE, descripcion |-> "A LOCACIONES DE SERVICIOS"],
                [present |-> TRUE, descripcion |-> ""] }

MonoSections ==
    { NoSection, EmptySection }
    \cup { DataSection(l, a, c) :
               l \in ItemLists(MonoItems),
               a \in { <<>>, << <<"SERVICIOS EN ", "RELAC", "ION DE ", "DEPENDENCIA">> >> },
               c \in Categorias }

RgSections ==
    { NoSection, EmptySection }
    \cup { DataSection(l, a, [present |-> FALSE, descripcion |-> ""]) :
               l \in ItemLists(RgItems),
               a \in { <<>>, << <<"empleado en ", "relac", "ion de ", "dependencia">> >>,
                       << <<"VENTA AL POR MENOR">> >> } }

PersonGeneral ==
    [present |-> TRUE, nombre |-> "JUAN", apellido |-> "PEREZ", razonSocial |-> "",
     estadoClave |-> "ACTIVO", tipoPersona |-> "FISICA",
     domicilio |-> <<"AV SIEMPRE VIVA 742", "", "BUENOS AIRES", "1000">>]

CompanyGeneral ==
    [present |-> TRUE, nombre |-> "", apellido |-> "", razonSocial |-> "ACME SA",
     estadoClave |-> "ACTIVO", tipoPersona |-> "JURIDICA", domicilio |-> <<>>]

Generals == { NoGeneral, PersonGeneral, CompanyGeneral }

\* a record with at least one of its four parts (a dict with no key at all
\* is the "none" case): every pair of sections for a natural person, either
\* kind of datosGenerales alone, a section without datosGenerales, and an
\* errorConstancia with and without datosGenerales
Taxpayers ==
    { [NoTaxpayer EXCEPT !.kind = "record", !.general = PersonGeneral,
                         !.mono = mo, !.rg = r] :
          mo \in MonoSections, r \in RgSections }
    \cup { [NoTaxpayer EXCEPT !.kind = "record", !.general = CompanyGeneral] }
    \cup { [NoTaxpayer EXCEPT !.kind = "record", !.mono = mo] :
               mo \in { EmptySection,
                        DataSection(<<Item(20, "AC", <<"MONOTRIBUTO">>)>>, <<>>,
                                    [present |-> FALSE, descripcion |-> ""]) } }
    \cup { [NoTaxpayer EXCEPT !.kind = "record", !.has_error = TRUE,
                              !.error_nombre = n, !.error_apellido = "PEREZ",
                              !.errors = <<"La clave se encuentra inactiva">>,
                              !.general = g] :
               n \in {"", "JUAN"}, g \in Generals }

AfipResults ==
    {NoTaxpayer} \cup Taxpayers
    \cup { [NoTaxpayer EXCEPT !.kind = "raise", !.msg = msg] :
               msg \in {"No existe persona con ese Id", "Connection timed out"} }

\* the body of the request; <<>> and "" stand for an absent, null or empty field
AfipRequests ==
    LET cuit == <<"2", "0", "1", "2", "3", "4", "5", "6", "7", "8", "6">>
        dni == <<"1", "2", "3", "4", "5", "6", "7", "8">>
    IN  { [cuit |-> cuit, dni |-> <<>>, sex |-> ""],
          [cuit |-> <<>>, dni |-> dni, sex |-> "F"],
          [cuit |-> <<>>, dni |-> dni, sex |-> ""],
          [cuit |-> <<>>, dni |-> <<>>, sex |-> "M"],
          [cuit |-> <<>>, dni |-> SubSeq(dni, 1, 6), sex |-> "M"] }

(***************************************************************************)
(* Specification SpecAfip: one POST /check_afip.                           *)
(***************************************************************************)
InitAfip ==
    /\ route = "check_afip"
    /\ pc = "validate"
    /\ req \in AfipRequests
    /\ run = NoRun
    /\ client_ok \in BOOLEAN
    /\ final_cuit = <<>>
    /\ calls = <<>>
    /\ result = NoTaxpayer
    /\ resp = AfipBlank
    /\ error_log = <<>>
    /\ NoSheetCalls

\* lines 282-298: every return before the registry call
AfipValidate ==
    /\ route = "check_afip"
    /\ pc = "validate"
    /\ IF ~client_ok
       THEN /\ resp' = AfipError(500, "AFIP client not initialized")
            /\ pc' = "done"
            /\ UNCHANGED <<final_cuit, run>>
       ELSE IF req.cuit # <<>>
       THEN /\ final_cuit' = req.cuit
            /\ pc' = "query"
            /\ UNCHANGED <<resp, run>>
       ELSE IF req.dni = <<>>
       THEN /\ resp' = AfipError(400, "DNI o CUIT es requerido")
            /\ pc' = "done"
            /\ UNCHANGED <<final_cuit, run>>
       ELSE IF req.sex = ""
       THEN /\ resp' = AfipError(400, "Sexo es requerido para calcular el CUIL")
            /\ pc' = "done"
            /\ UNCHANGED <<final_cuit, run>>
       ELSE /\ run' = CuilRun(req.dni, req.sex)
            /\ IF ~run'.ret.none /\ run'.ret.value # <<>>
               THEN /\ final_cuit' = run'.ret.value
                    /\ pc' = "query"
                    /\ UNCHANGED resp
               ELSE /\ resp' = AfipError(400, "No se pudo calcular el CUIL")
                    /\ pc' = "done"
                    /\ UNCHANGED final_cuit
    /\ UNCHANGED <<route, req, client_ok, calls, result, error_log>>
    /\ UNCHANGED sheet_vars

\* line 301: taxpayer = ...getTaxpayerDetails(int(cuit))
AfipQuery ==
    /\ route = "check_afip"
    /\ pc = "query"
    /\ calls' = Append(calls, IntOf(final_cuit))
    /\ \E t \in AfipResults : result' = t
    /\ pc' = "respond"
    /\ UNCHANGED <<route, req, run, client_ok, final_cuit, resp, error_log>>
    /\ UNCHANGED sheet_vars

\* lines 303-437: the response built from the taxpayer record
AfipRespond ==
    /\ route = "check_afip"
    /\ pc = "respond"
    /\ \E acts \in ActivityChoices(result) :
           resp' = AfipResponse(result, final_cuit, acts)
    /\ pc' = "done"
    /\ UNCHANGED <<route, req, run, client_ok, final_cuit, calls, result, error_log>>
    /\ UNCHANGED sheet_vars

NextAfip == AfipValidate \/ AfipQuery \/ AfipRespond

SpecAfip == InitAfip /\ [][NextAfip]_vars

(***************************************************************************)
(* Reference construction of a CUIL, written from the documented rule      *)
(* (prefix by gender, DNI padded to 8 digits, weighted sum modulo 11).     *)
(***************************************************************************)
RefPrefix(g) == CASE g = "M" -> <<"2", "0">>
                  [] g = "F" -> <<"2", "7">>
                  [] OTHER -> <<"2", "3">>

RefPad(d) == [i \in 1..8 |-> IF i <= 8 - Len(d) THEN "0" ELSE d[i - (8 - Len(d))]]

RefWeights == <<5, 4, 3, 2, 7, 6, 5, 4, 3, 2>>

RefSum(b) == int(b[1]) * RefWeights[1] + int(b[2]) * RefWeights[2]
           + int(b[3]) * RefWeights[3] + int(b[4]) * RefWeights[4]
           + int(b[5]) * RefWeights[5] + int(b[6]) * RefWeights[6]
           + int(b[7]) * RefWeights[7] + int(b[8]) * RefWeights[8]
           + int(b[9]) * RefWeights[9] + int(b[10]) * RefWeights[10]

\* 11 - (sum mod 11), before any replacement of 11 or 10
RefRawCheck(b) == 11 - (RefSum(b) % 11)

\* the same with 11 replaced by 0
RefCheck(b) == IF RefRawCheck(b) = 11 THEN 0 ELSE RefRawCheck(b)

\* the request carries a DNI of 7 or 8 digits (whitespace around it ignored)
\* and a non-empty gender
DerivableInput ==
    /\ req.sex # ""
    /\ req.dni # <<>>
    /\ Len(strip(req.dni)) \in {7, 8}
    /\ IsDigits(strip(req.dni))

\* the collision of the documented rule: Male or Female, and the checksum
\* under the gender's own prefix is 10
RefCollision ==
    /\ upper(req.sex) \in {"M", "F"}
    /\ RefRawCheck(RefPrefix(upper(req.sex)) \o RefPad(strip(req.dni))) = 10

(***************************************************************************)
(* Claims about calculate_cuil, checked under SpecCuil.                    *)
(***************************************************************************)

\* C1 (as claimed): for every DNI of 7 or 8 digits and every non-empty gender
\* the returned value is a text of exactly 11 digits, and the check digit is
\* in 0..9, never 10.
C1_ElevenDigitsAlways ==
    (Returned /\ DerivableInput /\ strip(req.dni) = req.dni) =>
        /\ ~run.ret.none
        /\ Len(run.ret.value) = 11
        /\ IsDigits(run.ret.value)
        /\ run.check_digit \in 0..9

\* C2 (as claimed): for every DNI of 11 digits the value returned is the DNI
\* unchanged, whatever the gender, the empty gender included.
C2_PassThroughAnyGender ==
    (Returned /\ Len(req.dni) = 11 /\ IsDigits(req.dni)) =>
        run.ret = Some(req.dni)

\* C2 (amended): for every DNI of 11 digits and every non-empty gender the
\* value returned is the DNI unchanged and no checksum is computed; with the
\* empty gender the value returned is None.
C2_PassThroughNonEmptyGender ==
    (Returned /\ Len(req.dni) = 11 /\ IsDigits(req.dni)) =>
        /\ req.sex # "" => (run.ret = Some(req.dni) /\ run.bases = <<>>)
        /\ req.sex = "" => run.ret = NoneVal

C2_Witness ==
    /\ Returned
    /\ Len(req.dni) = 11 /\ IsDigits(req.dni)
    /\ req.sex = "F"
    /\ run.ret = Some(req.dni)

\* C3: the value returned is None whenever the DNI is empty, the gender is
\* empty, or the DNI's length (whitespace around it not counted) is not 7, 8
\* or 11; and then no checksum was computed.
C3_InvalidInputsGiveNone ==
    (Returned /\ (\/ req.dni = <<>>
                  \/ req.sex = ""
                  \/ Len(strip(req.dni)) \notin {7, 8, 11})) =>
        /\ run.ret = NoneVal
        /\ run.bases = <<>>

C3_Witness ==
    /\ Returned
    /\ req.sex = "M"
    /\ Len(req.dni) = 9 /\ IsDigits(req.dni)
    /\ run.ret = NoneVal

\* C4: for a DNI of 7 or 8 digits: with gender Male or Female and a first
\* check digit of 10, the checksum is computed exactly once more, on prefix
\* 23, and the value returned is 23 + padded DNI + that second check digit
\* (11 shown as 0, a second 10 kept); with a first check digit other than 10
\* there is one checksum only and the prefix is the gender's own; for any
\* other gender there is one checksum only, on prefix 23.
C4_RetryExactlyOnce ==
    (Returned /\ DerivableInput) =>
        LET g == upper(req.sex)
            d == RefPad(strip(req.dni))
            own == RefPrefix(g)
        IN  /\ RefCollision =>
                /\ run.bases = << own \o d, <<"2", "3">> \o d >>
                /\ run.prefix = <<"2", "3">>
                /\ run.ret = Some(<<"2", "3">> \o d \o str(RefCheck(<<"2", "3">> \o d)))
            /\ (g \in {"M", "F"} /\ ~RefCollision) =>
                /\ run.bases = << own \o d >>
                /\ run.prefix = own
                /\ SubSeq(run.ret.value, 1, 2) = own
            /\ g \notin {"M", "F"} =>
                /\ run.bases = << <<"2", "3">> \o d >>
                /\ run.prefix = <<"2", "3">>

C4_Witness ==
    /\ Returned /\ DerivableInput
    /\ req.sex = "F"
    /\ RefCollision
    /\ Len(run.bases) = 2
    /\ SubSeq(run.ret.value, 1, 2) = <<"2", "3">>

\* C5: for a DNI of 7 or 8 digits and a non-empty gender with no collision
\* retry, the value returned is the reference construction: the prefix of the
\* gender, the DNI padded with zeros to 8 digits, and the check digit
\* 11 - (weighted sum mod 11) with 11 replaced by 0.
C5_MatchesReference ==
    (Returned /\ DerivableInput /\ ~RefCollision) =>
        LET b == RefPrefix(upper(req.sex)) \o RefPad(strip(req.dni))
        IN  run.ret = Some(b \o str(RefCheck(b)))

C5_Witness ==
    /\ Returned
    /\ req.dni = <<"5", "5", "5", "1", "2", "3", "4">>
    /\ req.sex = "F"
    /\ run.ret = Some(<<"2", "7", "0", "5", "5", "5", "1", "2", "3", "4", "0">>)

(***************************************************************************)
(* Claims about check_score, checked under SpecScore.                      *)
(***************************************************************************)
\* the handler has answered after hearing from the registry
ScoreAnswered == route = "check_score" /\ pc = "done" /\ result.kind # "none"

\* C6 (as claimed): an empty table and a status object with code 404 both
\* give HTTP 200 with status "no_data"; a status object with any other code
\* gives HTTP 500 carrying the code and the joined error messages; a result
\* that is neither a table nor a status object gives HTTP 500.
C6_DetailsAreJoinedMessages ==
    ScoreAnswered =>
        /\ (result.kind = "table" /\ result.rows = <<>>) =>
               (resp.code = 200 /\ resp.status = "no_data" /\ resp.error = "")
        /\ (result.kind = "dict" /\ result.has_status /\ result.status = 404) =>
               (resp.code = 200 /\ resp.status = "no_data" /\ resp.error = "")
        /\ (result.kind = "dict" /\ result.has_status /\ result.status # 404) =>
               /\ resp.code = 500
               /\ resp.error = "Error del BCRA"
               /\ resp.error_code = result.status
               /\ resp.details = Join(result.errorMessages)
        /\ result.kind = "other" =>
               (resp.code = 500 /\ resp.error = "Respuesta inesperada del BCRA")

\* C6 (amended): as above, except that the HTTP 500 of a status object with
\* another code carries the joined error messages only when there are any,
\* and the text of the whole status object otherwise.
C6_Classification ==
    ScoreAnswered =>
        /\ (result.kind = "table" /\ result.rows = <<>>) =>
               (resp.code = 200 /\ resp.status = "no_data" /\ resp.error = "")
        /\ (result.kind = "dict" /\ result.has_status /\ result.status = 404) =>
               (resp.code = 200 /\ resp.status = "no_data" /\ resp.error = "")
        /\ (result.kind = "dict" /\ ~(result.has_status /\ result.status = 404)) =>
               /\ resp.code = 500
               /\ resp.error = "Error del BCRA"
               /\ resp.error_code = (IF result.has_status THEN result.status ELSE 0)
               /\ result.errorMessages # <<>> => resp.details = Join(result.errorMessages)
               /\ result.errorMessages = <<>> => resp.details = ReprDict(result)
        /\ result.kind = "other" =>
               (resp.code = 500 /\ resp.error = "Respuesta inesperada del BCRA")

C6_Witness ==
    /\ ScoreAnswered
    /\ result = StatusObject(404, <<>>)
    /\ resp.code = 200 /\ resp.status = "no_data"

\* the severities that count: 1 for a missing field, the value for an
\* integer, nothing for a value that does not parse
Contributions(rows) ==
    { IF rows[i].situacion.k = "missing" THEN 1 ELSE rows[i].situacion.v :
          i \in { j \in 1..Len(rows) : rows[j].situacion.k # "bad" } }

\* the largest of a set of severities (0 when there is none)
Largest(S) == IF S = {} THEN 0 ELSE CHOOSE m \in S : \A x \in S : x <= m

\* C7: for every non-empty table the answer is a success carrying all records
\* in their original order, and summary_situation is the largest severity
\* among the records, a missing field counting as 1 and an unparseable value
\* contributing nothing (0 when no record contributes).
C7_MaxSeverity ==
    (ScoreAnswered /\ result.kind = "table" /\ result.rows # <<>>) =>
        /\ resp.code = 200
        /\ resp.status = "success"
        /\ resp.data = result.rows
        /\ resp.summary_situation = Largest(Contributions(result.rows))

C7_Witness ==
    /\ ScoreAnswered
    /\ result = Table(RowsOf(<<IntCell(3), BadCell, IntCell(1)>>))
    /\ resp.status = "success"
    /\ resp.summary_situation = 3

\* C10: with the client initialized: no dni gives 400; a dni of 10 or more
\* characters is sent to the registry unchanged, whatever sex is, and
\* calculate_cuil is not called; a shorter dni needs sex (400 without it),
\* calculate_cuil is called, and either its value is sent to the registry or,
\* when it is None, the answer is 400.  On every 400 the registry was not
\* called.
C10_ScoreGate ==
    (route = "check_score" /\ client_ok /\ pc # "validate") =>
        /\ req.dni = <<>> => (resp.code = 400 /\ ~run.called)
        /\ Len(req.dni) >= 10 =>
               /\ ~run.called
               /\ final_cuit = req.dni
               /\ resp.code # 400
               /\ pc # "query" => calls = <<req.dni>>
        /\ (req.dni # <<>> /\ Len(req.dni) < 10 /\ req.sex = "") =>
               (resp.code = 400 /\ ~run.called)
        /\ (req.dni # <<>> /\ Len(req.dni) < 10 /\ req.sex # "") =>
               /\ run = CuilRun(req.dni, req.sex)
               /\ run.ret.none => resp.code = 400
               /\ ~run.ret.none =>
                      /\ final_cuit = run.ret.value
                      /\ resp.code # 400
                      /\ pc # "query" => calls = <<run.ret.value>>
        /\ resp.code = 400 => (calls = <<>> /\ result.kind = "none" /\ pc = "done")

C10_Witness ==
    /\ route = "check_score" /\ client_ok /\ pc = "done"
    /\ Len(req.dni) = 10
    /\ req.sex = ""
    /\ calls = <<req.dni>>
    /\ resp.code = 200

(***************************************************************************)
(* Claims about check_history, checked under SpecHistory.                  *)
(***************************************************************************)
HistoryAnswered == route = "check_history" /\ pc = "done" /\ result.kind # "none"

\* the distinct periods of a table
PeriodsIn(rows) == { rows[i].periodos_periodo : i \in 1..Len(rows) }

\* the i-th largest element of a set of periods
Kth(P, i) == CHOOSE p \in P : Cardinality({ q \in P : q > p }) = i - 1

\* YYYYMM shown as YYYY-MM, anything else as its digits
RefFormat(p) ==
    IF p >= 100000 /\ p <= 999999
    THEN str(p \div 100) \o <<"-">> \o <<DigitChars[((p % 100) \div 10) + 1]>>
                                    \o <<DigitChars[(p % 10) + 1]>>
    ELSE str(p)

\* C8: for every non-empty history table with n distinct periods the answer
\* holds exactly min(n, 6) summaries; the i-th summary is that of the i-th
\* largest period (so they are the largest periods, most recent first, none
\* repeated); its count is the number of rows of that period; a period of 6
\* digits is shown as YYYY-MM and any other as is.
C8_LastSixPeriods ==
    (HistoryAnswered /\ result.kind = "table" /\ result.rows # <<>>) =>
        LET P == PeriodsIn(result.rows)
            n == Cardinality(P)
            H == resp.history
        IN  /\ resp.status = "success"
            /\ Len(H) = (IF n < 6 THEN n ELSE 6)
            /\ \A i \in 1..Len(H) :
                   /\ H[i].period = RefFormat(Kth(P, i))
                   /\ H[i].num_entities =
                          Cardinality({ j \in 1..Len(result.rows) :
                                            result.rows[j].periodos_periodo = Kth(P, i) })
            /\ \A i, j \in 1..Len(H) : i < j => Kth(P, i) > Kth(P, j)

C8_Witness ==
    /\ HistoryAnswered
    /\ result.kind = "table"
    /\ Cardinality(PeriodsIn(result.rows)) = 8
    /\ Len(result.rows) = 9
    /\ result.rows[1].periodos_periodo = 202403
    /\ Len(resp.history) = 6
    /\ resp.history[1].period = <<"2", "0", "2", "4", "-", "0", "8">>
    /\ resp.history[6].period = <<"2", "0", "2", "4", "-", "0", "3">>
    /\ \E i \in 1..6 : resp.history[i].num_entities = 2

(***************************************************************************)
(* Claims about check_afip, checked under SpecAfip.                        *)
(***************************************************************************)
AfipSucceeded == route = "check_afip" /\ pc = "done" /\ resp.status = "success"

\* the labels of the four flags, in the documented order
RefLabels(r) ==
    << IF r.categoria_monotributo # ""
       THEN <<"Monotributista", " (", r.categoria_monotributo, ")">>
       ELSE <<"Monotributista">>,
       <<"Responsable Inscripto">>,
       <<"Relacion de Dependencia">>,
       <<"Autonomo">> >>

RefFlags(r) == << r.is_monotributo, r.is_responsable_inscripto,
                  r.is_relacion_dependencia, r.is_autonomo >>

\* the labels of the true flags among the first n, joined by " | "
RECURSIVE RefJoined(_, _)
RefJoined(r, n) ==
    IF n = 0 THEN <<>>
    ELSE IF ~RefFlags(r)[n] THEN RefJoined(r, n - 1)
    ELSE IF \E k \in 1..(n - 1) : RefFlags(r)[k]
    THEN RefJoined(r, n - 1) \o <<" | ">> \o RefLabels(r)[n]
    ELSE RefLabels(r)[n]

\* a section that carries no data: absent, or an empty dict
NoData(section) == section.state \in {"absent", "empty"}

\* C9: the condition label is the " | "-joined list of the labels of exactly
\* the true flags, in the order Monotributista (with its category),
\* Responsable Inscripto, Relacion de Dependencia, Autonomo; with no flag true
\* it is the "Sin inscripciones activas" text when both sections carry no
\* data and "Sin condicion activa detectada" otherwise.  An active item 20 in
\* datosMonotributo with no datosRegimenGeneral data sets is_monotributo and
\* gives a label containing Monotributista.
C9_ConditionLabel ==
    AfipSucceeded =>
        /\ (\E k \in 1..4 : RefFlags(resp)[k]) =>
               resp.condicion_fiscal = RefJoined(resp, 4)
        /\ (\A k \in 1..4 : ~RefFlags(resp)[k]) =>
               resp.condicion_fiscal =
                   (IF NoData(result.mono) /\ NoData(result.rg)
                    THEN SinInscripciones ELSE SinCondicion)
        /\ ((\E i \in 1..Len(result.mono.impuesto) :
                 result.mono.impuesto[i] = Item(20, "AC", <<"MONOTRIBUTO">>))
            /\ NoData(result.rg)) =>
               /\ resp.is_monotributo
               /\ Contains(resp.condicion_fiscal, "Monotributista")

\* all four flags true at once
C9_Witness ==
    /\ AfipSucceeded
    /\ resp.is_monotributo /\ resp.is_responsable_inscripto
    /\ resp.is_relacion_dependencia /\ resp.is_autonomo
    /\ resp.condicion_fiscal =
           <<"Monotributista", " (", "A LOCACIONES DE SERVICIOS", ")", " | ",
             "Responsable Inscripto", " | ", "Relacion de Dependencia", " | ",
             "Autonomo">>

(***************************************************************************)
(* Specification SpecRequest: one request to any of the three handlers.    *)
(***************************************************************************)
InitRequest == InitScore \/ InitHistory \/ InitAfip

NextRequest == NextScore \/ NextHistory \/ NextAfip

SpecRequest == InitRequest /\ [][NextRequest]_vars

\* the handler has returned a response
Responded == resp.code # 0

\* the registry call raised
CallRaised == calls # <<>> /\ result.kind = "raise"

\* the registry call returned a status object whose code is not 404
CallErrorStatus == calls # <<>> /\ result.kind = "dict" /\ StatusCode(result) # 404

\* the tax registry raised its exception for an unknown person
CallPersonNotFound ==
    /\ route = "check_afip"
    /\ CallRaised
    /\ result.msg = "No existe persona con ese Id"

\* how far the handler has got: before the call, at the call, after it, returned
Position(p) ==
    CASE p = "validate" -> 0 [] p = "query" -> 1 [] p = "respond" -> 2 [] p = "done" -> 3

\* the parts of C11 that do not depend on which outcomes count as failures:
\* the registry is called at most once and only before any response; every
\* step moves the handler forward, so a request is over after at most three
\* steps; and the response is given once, at the return, and never changes
SingleCallSingleResponse ==
    /\ [](Len(calls) <= 1)
    /\ [][calls' # calls => pc = "query" /\ calls = <<>> /\ ~Responded]_vars
    /\ [][Position(pc') > Position(pc)]_vars
    /\ [](Responded <=> pc = "done")
    /\ [][resp' # resp => ~Responded /\ Responded' /\ pc' = "done"]_vars

\* C11 as stated: within one request the registry client is called at most
\* once; every failure of the call (an exception, or a status other than 404)
\* is answered by the very next step with a 500 and no further call; and the
\* request ends in exactly one response.
C11_AnyFailureIs500 ==
    /\ SingleCallSingleResponse
    /\ [][pc = "respond" /\ (CallRaised \/ CallErrorStatus)
            => pc' = "done" /\ resp'.code = 500 /\ calls' = calls]_vars

\* C11 as amended: the same, except that the tax registry's "No existe
\* persona" exception is not a failure: it is answered by the very next step
\* with a 200 of status not_found, also without a further call.
C11_SingleAttempt ==
    /\ SingleCallSingleResponse
    /\ [][pc = "respond" /\ (CallRaised \/ CallErrorStatus) /\ ~CallPersonNotFound
            => pc' = "done" /\ resp'.code = 500 /\ calls' = calls]_vars
    /\ [][pc = "respond" /\ CallPersonNotFound
            => pc' = "done" /\ resp'.code = 200 /\ resp'.status = "not_found"
               /\ calls' = calls]_vars

\* a request whose one registry call failed and was answered with a 500
C11_Witness ==
    /\ pc = "done"
    /\ Len(calls) = 1
    /\ CallRaised \/ CallErrorStatus
    /\ ~CallPersonNotFound
    /\ resp.code = 500

(***************************************************************************)
(* save_consultation (src/sheets_helper.py): the spreadsheet log.          *)
(* A row of the sheet is kept as its first cell A and the call that wrote  *)
(* it (0 for the header row).  Each request to the Sheets API is one step; *)
(* any of them can raise, which ends the call (lines 97-102 re-raise).     *)
(***************************************************************************)
\* the list headers of lines 76-86: its first cell is 'Fecha Consulta'
headers == [A |-> "Fecha Consulta", call |-> 0]

\* the list row of lines 132-155 as built by call t: its first cell is now,
\* a formatted timestamp, never empty
row(t) == [A |-> "2026-01-01 00:00:00", call |-> t]

\* ws.acell('A1').value: the first cell of the first row, None (here "")
\* while the sheet has no row
acell_A1(rows) == IF rows = <<>> THEN "" ELSE rows[1].A

\* ws.append_row(values): the values become the row after the last one
append_row(rows, values) == Append(rows, values)

\* lines 62-73: the client, gc.open_by_key(sid), the id file, sh.sheet1
OpenByKey(t) ==
    /\ route = "save_consultation"
    /\ call_pc[t] = "open"
    /\ \E ok \in BOOLEAN :
           call_pc' = [call_pc EXCEPT ![t] = IF ok THEN "acell" ELSE "raised"]
    /\ UNCHANGED <<ws, existing_val>>
    /\ UNCHANGED app_vars

\* lines 74-75: existing_val = ws.acell('A1').value; if not existing_val
ReadA1(t) ==
    /\ route = "save_consultation"
    /\ call_pc[t] = "acell"
    /\ \E ok \in BOOLEAN :
           IF ok
           THEN /\ existing_val' = [existing_val EXCEPT ![t] = acell_A1(ws)]
                /\ call_pc' = [call_pc EXCEPT ![t] =
                                  IF acell_A1(ws) = "" THEN "headers" ELSE "row"]
           ELSE /\ call_pc' = [call_pc EXCEPT ![t] = "raised"]
                /\ UNCHANGED existing_val
    /\ UNCHANGED ws
    /\ UNCHANGED app_vars

\* line 87: ws.append_row(headers)
AppendHeaders(t) ==
    /\ route = "save_consultation"
    /\ call_pc[t] = "headers"
    /\ \E ok \in BOOLEAN :
           IF ok
           THEN /\ ws' = append_row(ws, headers)
                /\ call_pc' = [call_pc EXCEPT ![t] = "format"]
           ELSE /\ call_pc' = [call_pc EXCEPT ![t] = "raised"]
                /\ UNCHANGED ws
    /\ UNCHANGED existing_val
    /\ UNCHANGED app_vars

\* lines 89-93: ws.format('A1:T1', ...), which changes no cell value
FormatHeader(t) ==
    /\ route = "save_consultation"
    /\ call_pc[t] = "format"
    /\ \E ok \in BOOLEAN :
           call_pc' = [call_pc EXCEPT ![t] = IF ok THEN "freeze" ELSE "raised"]
    /\ UNCHANGED <<ws, existing_val>>
    /\ UNCHANGED app_vars

\* line 94: ws.freeze(rows=1), which changes no cell value
Freeze(t) ==
    /\ route = "save_consultation"
    /\ call_pc[t] = "freeze"
    /\ \E ok \in BOOLEAN :
           call_pc' = [call_pc EXCEPT ![t] = IF ok THEN "row" ELSE "raised"]
    /\ UNCHANGED <<ws, existing_val>>
    /\ UNCHANGED app_vars

\* lines 96, 117-158: the row is built, appended, and sh.url returned
AppendRow(t) ==
    /\ route = "save_consultation"
    /\ call_pc[t] = "row"
    /\ \E ok \in BOOLEAN :
           IF ok
           THEN /\ ws' = append_row(ws, row(t))
                /\ call_pc' = [call_pc EXCEPT ![t] = "done"]
           ELSE /\ call_pc' = [call_pc EXCEPT ![t] = "raised"]
                /\ UNCHANGED ws
    /\ UNCHANGED existing_val
    /\ UNCHANGED app_vars

(***************************************************************************)
(* Specification SpecSink: MaxCalls calls of save_consultation, each from  *)
(* its own thread, on an empty sheet.  The module takes no lock, so their  *)
(* API requests interleave freely.                                         *)
(***************************************************************************)
InitSink ==
    /\ route = "save_consultation"
    /\ pc = "calls"
    /\ req = <<>>
    /\ run = NoRun
    /\ client_ok = TRUE
    /\ final_cuit = <<>>
    /\ calls = <<>>
    /\ result = NoResult
    /\ resp = [code |-> 0]
    /\ error_log = <<>>
    /\ ws = <<>>
    /\ call_pc = [t \in Calls |-> "open"]
    /\ existing_val = [t \in Calls |-> ""]

\* one step of call t of save_consultation
save_consultation(t) ==
    \/ OpenByKey(t)
    \/ ReadA1(t)
    \/ AppendHeaders(t)
    \/ FormatHeader(t)
    \/ Freeze(t)
    \/ AppendRow(t)

NextSink == \E t \in Calls : save_consultation(t)

SpecSink == InitSink /\ [][NextSink]_vars

\* the positions in ws of the header rows, and of the rows written by call t
HeaderRows == { i \in 1..Len(ws) : ws[i].call = 0 }

DataRows(t) == { i \in 1..Len(ws) : ws[i].call = t }

\* C12: however the calls of save_consultation on an initially empty sheet
\* interleave, the header row is appended at most once and, as soon as the
\* sheet has a row, exactly once and as row 1; no call writes more than one
\* data row, and a call that has completed has written exactly one, below
\* the header.
C12_HeaderOnceRowPerCall ==
    /\ Cardinality(HeaderRows) <= 1
    /\ ws # <<>> => HeaderRows = {1}
    /\ \A t \in Calls :
           /\ Cardinality(DataRows(t)) <= 1
           /\ call_pc[t] = "done" => Cardinality(DataRows(t)) = 1

====
